---- MODULE Spec2Model ----
(***************************************************************************)
(* CosyVoiceEngine.synthesize (packages/backend/src/tts/engines/           *)
(* cosyVoice.ts): one synthesis session over a WebSocket.  The state of a  *)
(* session is the closure of one synthesize call: the request options, the *)
(* three sinks (audioChunks, outputStream, fileStream), the promise and    *)
(* the WebSocket.  The actions are the call itself, the three transport    *)
(* callbacks the call registers (open, message, error), the transport's    *)
(* 'close' event (for which the call registers nothing) and the file       *)
(* stream's asynchronous flush and close.                                  *)
(***************************************************************************)
EXTENDS Integers, Sequences, FiniteSets, TLC

VARIABLES sess, hist, budget

vars == <<sess, hist, budget>>

(***************************************************************************)
(* Bounds of the model.                                                    *)
(***************************************************************************)
\* transport events (open, frames, error, close) delivered in one run
MaxEvents == 5

\* the sessions of a run
Sessions == {1}

\* the concurrent calls of the two-session specification, and the number of
\* transport events delivered to them together
Sessions2 == {1, 2}

MaxEvents2 == 3

(***************************************************************************)
(* Values.                                                                 *)
(***************************************************************************)
\* JavaScript's undefined, for an option or a header field that is absent
Undefined == "undefined"

\* JavaScript truthiness of a string-or-undefined value
Truthy(v) == v # Undefined /\ v # ""

Texts == {"ni hao"}

TaskIds == {"t1", "t2"}

\* binary audio frames, as byte sequences
Chunks == {<<65, 65>>, <<66>>}

OutputTypes == {Undefined, "file"}

Outputs == {Undefined, "/tmp/x.mp3"}

\* messages of a transport error
WsErrors == {"ECONNRESET"}

\* header.error_message of a task-failed event: absent, empty, or a text
ErrorMessages == {Undefined, "", "quota exceeded"}

FallbackMessage == "CosyVoice task failed"

(***************************************************************************)
(* The parameter mapping.  A volume or a speed is a number of 1/256ths, so *)
(* 256 is 1.0: on these the multiplication by 100 and Math.round are exact *)
(* in double precision.                                                    *)
(***************************************************************************)
\* a numeric option: absent, or given with a value
Absent == [given |-> FALSE, value |-> 0]

Given(value) == [given |-> TRUE, value |-> value]

\* options.volume: absent, or from -0.25 to 1.25
VolumeInputs == {Absent} \cup {Given(v) : v \in -64 .. 320}

\* options.volume of the runs that explore the protocol
Volumes == {Absent}

\* options.speed
Speeds == {Absent}

Min(a, b) == IF a <= b THEN a ELSE b

Max(a, b) == IF a >= b THEN a ELSE b

\* Math.round of x/256, for x >= 0: the nearest integer, a half rounded up
MathRound(x) == (2 * x + 256) \div 512

\* the volume mapping without the || 50
cosyVolume_noDefault(volume) ==
    LET v == IF volume.given THEN volume.value ELSE 256
    IN  MathRound(Max(0, Min(100 * 256, v * 100)))

\* Math.round(Math.max(0, Math.min(100, volume * 100))) || 50, volume = 1.0
\* when the option is absent
cosyVolume(volume) ==
    LET v == IF volume.given THEN volume.value ELSE 256
        rounded == MathRound(Max(0, Min(100 * 256, v * 100)))
    IN  IF rounded = 0 THEN 50 ELSE rounded

\* Math.max(0.5, Math.min(2.0, speed)), speed = 1.0 when the option is absent
cosySpeed(speed) ==
    LET v == IF speed.given THEN speed.value ELSE 256
    IN  Max(128, Min(512, v))

\* const cosyPitch = 1.0
cosyPitch == 256

\* parameters.sample_rate
SampleRate == 22050

RECURSIVE Concat(_)
\* Buffer.concat: the bytes of the chunks, in order
Concat(chunks) ==
    IF chunks = <<>> THEN <<>> ELSE Head(chunks) \o Concat(Tail(chunks))

(***************************************************************************)
(* The promise returned by synthesize: it settles once.                    *)
(***************************************************************************)
PendingPromise ==
    [state |-> "pending", kind |-> "none", bytes |-> <<>>, message |-> Undefined]

StreamValue == [kind |-> "stream", bytes |-> <<>>]

BufferValue(bytes) == [kind |-> "buffer", bytes |-> bytes]

resolve(p, v) ==
    IF p.state = "pending"
    THEN [state |-> "resolved", kind |-> v.kind, bytes |-> v.bytes,
          message |-> Undefined]
    ELSE p

reject(p, message) ==
    IF p.state = "pending"
    THEN [state |-> "rejected", kind |-> "none", bytes |-> <<>>,
          message |-> message]
    ELSE p

(***************************************************************************)
(* The file sink: fs.createWriteStream.  write queues the chunk, the queue *)
(* is flushed to the file asynchronously; end stops the writes and lets    *)
(* the queue drain before the file closes; destroy drops the queue.        *)
(***************************************************************************)
NoFileStream ==
    [exists |-> FALSE, state |-> "none", pending |-> <<>>, disk |-> <<>>,
     lateWrites |-> 0]

createWriteStream ==
    [exists |-> TRUE, state |-> "open", pending |-> <<>>, disk |-> <<>>,
     lateWrites |-> 0]

fileStream_write(f, buffer) ==
    IF f.state = "open"
    THEN [f EXCEPT !.pending = Append(@, buffer)]
    ELSE [f EXCEPT !.lateWrites = @ + 1]

fileStream_end(f) ==
    IF f.state = "open" THEN [f EXCEPT !.state = "ending"] ELSE f

fileStream_destroy(f) ==
    IF f.state \in {"open", "ending"}
    THEN [f EXCEPT !.state = "destroyed", !.pending = <<>>]
    ELSE f

(***************************************************************************)
(* The stream sink: a PassThrough.  emit('error') delivers an error event  *)
(* and leaves the stream as it is; a write after end is refused.           *)
(***************************************************************************)
NewPassThrough ==
    [data |-> <<>>, ended |-> FALSE, errors |-> <<>>, lateWrites |-> 0]

\* outputStream.write that drops a chunk when one is already buffered
outputStream_write_drop(o, buffer) ==
    IF o.ended
    THEN [o EXCEPT !.lateWrites = @ + 1]
    ELSE [o EXCEPT !.data = IF @ = <<>> THEN <<buffer>> ELSE @]

outputStream_write(o, buffer) ==
    IF o.ended
    THEN [o EXCEPT !.lateWrites = @ + 1]
    ELSE [o EXCEPT !.data = Append(@, buffer)]

outputStream_end(o) == [o EXCEPT !.ended = TRUE]

outputStream_emitError(o, message) == [o EXCEPT !.errors = Append(@, message)]

\* audioChunks.push with the new chunk put first
audioChunks_push_front(chunks, buffer) == <<buffer>> \o chunks

\* audioChunks.push
audioChunks_push(chunks, buffer) == Append(chunks, buffer)

(***************************************************************************)
(* The WebSocket.  close starts the closing handshake: frames and errors   *)
(* may still arrive until the transport is CLOSED.  A send on a socket     *)
(* that is not OPEN transmits nothing.                                     *)
(***************************************************************************)
NewWebSocket ==
    [readyState |-> "CONNECTING", sent |-> <<>>, unsent |-> 0, closeCalls |-> 0]

ws_send(w, cmd) ==
    IF w.readyState = "OPEN"
    THEN [w EXCEPT !.sent = Append(@, cmd)]
    ELSE [w EXCEPT !.unsent = @ + 1]

ws_close(w) ==
    [w EXCEPT !.closeCalls = @ + 1,
              !.readyState = IF @ = "OPEN" THEN "CLOSING" ELSE @]

(***************************************************************************)
(* Commands (client to server) and frames (server to client).              *)
(***************************************************************************)
\* of run-task: the header's action and task_id and the numeric parameters
runTaskCmd(s) ==
    [action |-> "run-task", task_id |-> s.taskId, text |-> Undefined,
     sample_rate |-> SampleRate, volume |-> cosyVolume(s.volume),
     rate |-> cosySpeed(s.speed), pitch |-> cosyPitch]

continueTaskCmd(s) == [action |-> "continue-task", task_id |-> s.taskId, text |-> s.text]

finishTaskCmd(s) == [action |-> "finish-task", task_id |-> s.taskId, text |-> Undefined]

\* a text frame that is no JSON
NotJson ==
    [json |-> FALSE, hasHeader |-> FALSE, event |-> Undefined,
     task_id |-> Undefined, error_message |-> Undefined]

\* a JSON text frame without a header
JsonNoHeader ==
    [json |-> TRUE, hasHeader |-> FALSE, event |-> Undefined,
     task_id |-> Undefined, error_message |-> Undefined]

ControlFrame(event, task_id, error_message) ==
    [json |-> TRUE, hasHeader |-> TRUE, event |-> event,
     task_id |-> task_id, error_message |-> error_message]

\* header.event of the frames the server sends; "heartbeat" is an event the
\* client does not know, Undefined a header without an event
Events ==
    {"task-started", "result-generated", "task-finished", "task-failed",
     "heartbeat", Undefined}

MalformedFrames == {NotJson, JsonNoHeader}

TextFrames ==
    MalformedFrames
    \cup {ControlFrame(e, t, Undefined) : e \in Events, t \in TaskIds}
    \cup {ControlFrame("task-failed", t, m) : t \in TaskIds, m \in ErrorMessages}

\* JSON.parse(data.toString()) followed by the read of msg.header.event:
\* either throws, and the catch of the message handler takes over
Throws(frame) == ~frame.json \/ ~frame.hasHeader

(***************************************************************************)
(* The session: the closure of one synthesize call.                        *)
(***************************************************************************)
\* before the call
Idle ==
    [called |-> FALSE, text |-> Undefined, volume |-> Absent,
     speed |-> Absent, stream |-> FALSE,
     outputType |-> Undefined, output |-> Undefined, taskId |-> Undefined,
     audioChunks |-> <<>>, outputStream |-> NewPassThrough,
     fileStream |-> NoFileStream, promise |-> PendingPromise,
     ws |-> NewWebSocket]

\* the sink the handlers' if (fileStream) / else if (stream) / else selects
Sink(s) ==
    IF s.fileStream.exists THEN "file"
    ELSE IF s.stream THEN "stream"
    ELSE "buffer"

\* synthesize without the early resolve of stream mode
synthesize_noEarlyResolve(text, volume, speed, stream, outputType, output, taskId) ==
    [called |-> TRUE, text |-> text, volume |-> volume, speed |-> speed,
     stream |-> stream,
     outputType |-> outputType, output |-> output, taskId |-> taskId,
     audioChunks |-> <<>>, outputStream |-> NewPassThrough,
     fileStream |-> IF outputType = "file" /\ Truthy(output)
                    THEN createWriteStream
                    ELSE NoFileStream,
     promise |-> PendingPromise,
     ws |-> NewWebSocket]

\* the body of synthesize, up to the return of the promise
synthesize(text, volume, speed, stream, outputType, output, taskId) ==
    LET fileStream == IF outputType = "file" /\ Truthy(output)
                      THEN createWriteStream
                      ELSE NoFileStream
    IN  [called |-> TRUE, text |-> text, volume |-> volume, speed |-> speed,
         stream |-> stream,
         outputType |-> outputType, output |-> output, taskId |-> taskId,
         audioChunks |-> <<>>, outputStream |-> NewPassThrough,
         fileStream |-> fileStream,
         promise |-> IF stream /\ ~fileStream.exists
                     THEN resolve(PendingPromise, StreamValue)
                     ELSE PendingPromise,
         ws |-> NewWebSocket]

\* ws.on('open')
onOpen(s) == [s EXCEPT !.ws = ws_send(@, runTaskCmd(s))]

\* ws.on('message'), a binary frame, with the stream flag tested first
onBinary_streamFirst(s, buffer) ==
    IF s.stream
    THEN [s EXCEPT !.outputStream = outputStream_write(@, buffer)]
    ELSE IF s.fileStream.exists
    THEN [s EXCEPT !.fileStream = fileStream_write(@, buffer)]
    ELSE [s EXCEPT !.audioChunks = audioChunks_push(@, buffer)]

\* ws.on('message'), a binary frame, dropped until continue-task was sent
onBinary_gated(s, buffer) ==
    IF Len(s.ws.sent) < 2
    THEN s
    ELSE IF s.fileStream.exists
    THEN [s EXCEPT !.fileStream = fileStream_write(@, buffer)]
    ELSE IF s.stream
    THEN [s EXCEPT !.outputStream = outputStream_write(@, buffer)]
    ELSE [s EXCEPT !.audioChunks = audioChunks_push(@, buffer)]

\* ws.on('message'), a binary frame
onBinary(s, buffer) ==
    IF s.fileStream.exists
    THEN [s EXCEPT !.fileStream = fileStream_write(@, buffer)]
    ELSE IF s.stream
    THEN [s EXCEPT !.outputStream = outputStream_write(@, buffer)]
    ELSE [s EXCEPT !.audioChunks = audioChunks_push(@, buffer)]

\* the task-started branch with the two commands in the other order
onTaskStarted_finishFirst(s) ==
    [s EXCEPT !.ws = ws_send(ws_send(@, finishTaskCmd(s)), continueTaskCmd(s))]

\* the task-started branch
onTaskStarted(s) ==
    [s EXCEPT !.ws = ws_send(ws_send(@, continueTaskCmd(s)), finishTaskCmd(s))]

\* the task-finished branch
onTaskFinished(s) ==
    LET closed == [s EXCEPT !.ws = ws_close(@)]
    IN  IF s.fileStream.exists
        THEN [closed EXCEPT !.fileStream = fileStream_end(@),
                            !.promise = resolve(@, BufferValue(<<>>))]
        ELSE IF s.stream
        THEN [closed EXCEPT !.outputStream = outputStream_end(@)]
        ELSE [closed EXCEPT
                !.promise = resolve(@, BufferValue(Concat(s.audioChunks)))]

\* the error message without the fallback
errorMsg_noFallback(error_message) == error_message

\* msg.header.error_message || 'CosyVoice task failed'
errorMsg(error_message) ==
    IF Truthy(error_message) THEN error_message ELSE FallbackMessage

\* the task-failed branch whose file case destroys the file and no more
onTaskFailed_noReject(s, error_message) ==
    LET closed == [s EXCEPT !.ws = ws_close(@)]
        error  == errorMsg(error_message)
    IN  IF s.fileStream.exists
        THEN [closed EXCEPT !.fileStream = fileStream_destroy(@)]
        ELSE IF s.stream
        THEN [closed EXCEPT !.outputStream = outputStream_emitError(@, error)]
        ELSE [closed EXCEPT !.promise = reject(@, error)]

\* the task-failed branch
onTaskFailed(s, error_message) ==
    LET closed == [s EXCEPT !.ws = ws_close(@)]
        error  == errorMsg(error_message)
    IN  IF s.fileStream.exists
        THEN [closed EXCEPT !.fileStream = fileStream_destroy(@),
                            !.promise = reject(@, error)]
        ELSE IF s.stream
        THEN [closed EXCEPT !.outputStream = outputStream_emitError(@, error)]
        ELSE [closed EXCEPT !.promise = reject(@, error)]

\* ws.on('message') whose catch rejects the promise
onText_fatalCatch(s, frame) ==
    IF Throws(frame) THEN [s EXCEPT !.promise = reject(@, "SyntaxError")]
    ELSE IF frame.event = "task-started" THEN onTaskStarted(s)
    ELSE IF frame.event = "result-generated" THEN s
    ELSE IF frame.event = "task-finished" THEN onTaskFinished(s)
    ELSE IF frame.event = "task-failed" THEN onTaskFailed(s, frame.error_message)
    ELSE s

\* ws.on('message') that closes the connection on an event it does not know
onText_unknownCloses(s, frame) ==
    IF Throws(frame) THEN s
    ELSE IF frame.event = "task-started" THEN onTaskStarted(s)
    ELSE IF frame.event = "result-generated" THEN s
    ELSE IF frame.event = "task-finished" THEN onTaskFinished(s)
    ELSE IF frame.event = "task-failed" THEN onTaskFailed(s, frame.error_message)
    ELSE [s EXCEPT !.ws = ws_close(@)]

\* ws.on('message'), a text frame
onText(s, frame) ==
    IF Throws(frame) THEN s
    ELSE IF frame.event = "task-started" THEN onTaskStarted(s)
    ELSE IF frame.event = "result-generated" THEN s
    ELSE IF frame.event = "task-finished" THEN onTaskFinished(s)
    ELSE IF frame.event = "task-failed" THEN onTaskFailed(s, frame.error_message)
    ELSE s

\* ws.on('error') that forgets the stream sink
onError_silentStream(s, err) ==
    IF s.fileStream.exists
    THEN [s EXCEPT !.fileStream = fileStream_destroy(@),
                   !.promise = reject(@, err)]
    ELSE IF s.stream
    THEN s
    ELSE [s EXCEPT !.promise = reject(@, err)]

\* ws.on('error')
onError(s, err) ==
    IF s.fileStream.exists
    THEN [s EXCEPT !.fileStream = fileStream_destroy(@),
                   !.promise = reject(@, err)]
    ELSE IF s.stream
    THEN [s EXCEPT !.outputStream = outputStream_emitError(@, err)]
    ELSE [s EXCEPT !.promise = reject(@, err)]

(***************************************************************************)
(* What has happened on a session's connection: whether it opened, the     *)
(* binary frames in arrival order, the first terminal event (and, when it  *)
(* is a task-failed event, its header.error_message; when it is a          *)
(* transport error, the error's message), the number of binary             *)
(* frames that arrived before the first task-finished event, the last step.*)
(* Also the number of task-started events, and the number of binary frames *)
(* that arrived before the first task-started event (startedAt) and before *)
(* the first terminal event (terminalAt); -1 while there was none.         *)
(***************************************************************************)
NoFrame == NotJson

NoHist ==
    [opened |-> FALSE, received |-> <<>>, firstTerminal |-> "none",
     failMessage |-> "none", finishedAt |-> -1,
     starts |-> 0, startedAt |-> -1, terminalAt |-> -1,
     last |-> [kind |-> "none", frame |-> NoFrame]]

IsEvent(frame, event) == frame.json /\ frame.hasHeader /\ frame.event = event

Step(h, kind) == [h EXCEPT !.last = [kind |-> kind, frame |-> NoFrame]]

Terminal(h, what) ==
    [h EXCEPT !.firstTerminal = IF @ = "none" THEN what ELSE @,
              !.terminalAt = IF @ = -1 THEN Len(h.received) ELSE @]

TextStep(h, frame) ==
    LET h1 == [h EXCEPT !.last = [kind |-> "text", frame |-> frame]]
    IN  IF IsEvent(frame, "task-finished")
        THEN [Terminal(h1, "task-finished") EXCEPT
                !.finishedAt = IF @ = -1 THEN Len(h.received) ELSE @]
        ELSE IF IsEvent(frame, "task-failed")
        THEN [Terminal(h1, "task-failed") EXCEPT
                !.failMessage = IF h.firstTerminal = "none"
                                THEN frame.error_message ELSE @]
        ELSE IF IsEvent(frame, "task-started")
        THEN [h1 EXCEPT !.starts = @ + 1,
                        !.startedAt = IF @ = -1 THEN Len(h.received) ELSE @]
        ELSE h1

(***************************************************************************)
(* The actions.                                                            *)
(***************************************************************************)
Init ==
    /\ sess = [i \in Sessions |-> Idle]
    /\ hist = [i \in Sessions |-> NoHist]
    /\ budget = MaxEvents

\* a frame or an error can be delivered on the connection
Connected(s) == s.called /\ s.ws.readyState \in {"OPEN", "CLOSING"}

\* a call of synthesize with its volume option among `volumes`; randomUUID
\* gives a task id that no other session has
SynthesizeFrom(i, volumes) ==
    /\ ~sess[i].called
    /\ \E text \in Texts, volume \in volumes, speed \in Speeds,
          stream \in BOOLEAN, outputType \in OutputTypes,
          output \in Outputs, taskId \in TaskIds :
          /\ \A j \in DOMAIN sess : sess[j].taskId # taskId
          /\ sess' = [sess EXCEPT
                        ![i] = synthesize(text, volume, speed, stream,
                                          outputType, output, taskId)]
    /\ hist' = [hist EXCEPT ![i] = Step(@, "call")]
    /\ UNCHANGED budget

Synthesize(i) == SynthesizeFrom(i, Volumes)

SynthesizeAnyVolume(i) == SynthesizeFrom(i, VolumeInputs)

Open(i) ==
    /\ sess[i].called
    /\ sess[i].ws.readyState = "CONNECTING"
    /\ budget > 0
    /\ sess' = [sess EXCEPT
                  ![i] = onOpen([sess[i] EXCEPT !.ws.readyState = "OPEN"])]
    /\ hist' = [hist EXCEPT ![i] = [Step(@, "open") EXCEPT !.opened = TRUE]]
    /\ budget' = budget - 1

\* a message handler that appends the frame to every session's sink
MessageBinary_shared(i) ==
    /\ Connected(sess[i])
    /\ budget > 0
    /\ \E buffer \in Chunks :
          /\ sess' = [j \in DOMAIN sess |->
                        IF j = i \/ sess[j].called
                        THEN onBinary(sess[j], buffer) ELSE sess[j]]
          /\ hist' = [hist EXCEPT
                        ![i] = [Step(@, "binary") EXCEPT
                                  !.received = Append(@, buffer)]]
    /\ budget' = budget - 1

MessageBinary(i) ==
    /\ Connected(sess[i])
    /\ budget > 0
    /\ \E buffer \in Chunks :
          /\ sess' = [sess EXCEPT ![i] = onBinary(@, buffer)]
          /\ hist' = [hist EXCEPT
                        ![i] = [Step(@, "binary") EXCEPT
                                  !.received = Append(@, buffer)]]
    /\ budget' = budget - 1

MessageText(i) ==
    /\ Connected(sess[i])
    /\ budget > 0
    /\ \E frame \in TextFrames :
          /\ sess' = [sess EXCEPT ![i] = onText(@, frame)]
          /\ hist' = [hist EXCEPT ![i] = TextStep(@, frame)]
    /\ budget' = budget - 1

\* a transport error: the handler runs, and the transport is gone
WsError(i) ==
    /\ sess[i].called
    /\ sess[i].ws.readyState \in {"CONNECTING", "OPEN", "CLOSING"}
    /\ budget > 0
    /\ \E err \in WsErrors :
          /\ sess' = [sess EXCEPT
                        ![i] = [onError(@, err) EXCEPT
                                  !.ws.readyState = "CLOSED"]]
          /\ hist' = [hist EXCEPT
                        ![i] = [Terminal(Step(@, "error"), "error") EXCEPT
                                  !.failMessage =
                                      IF hist[i].firstTerminal = "none"
                                      THEN err ELSE @]]
    /\ budget' = budget - 1

\* the transport's 'close' event: the session has no handler for it
WsClose(i) ==
    /\ Connected(sess[i])
    /\ budget > 0
    /\ sess' = [sess EXCEPT ![i].ws.readyState = "CLOSED"]
    /\ hist' = [hist EXCEPT ![i] = Step(@, "close")]
    /\ budget' = budget - 1

\* the file stream writes its oldest queued chunk to the file
FileFlush(i) ==
    /\ sess[i].fileStream.state \in {"open", "ending"}
    /\ sess[i].fileStream.pending # <<>>
    /\ sess' = [sess EXCEPT
                  ![i].fileStream.disk = @ \o Head(sess[i].fileStream.pending),
                  ![i].fileStream.pending = Tail(@)]
    /\ hist' = [hist EXCEPT ![i] = Step(@, "flush")]
    /\ UNCHANGED budget

\* the file stream, ended and drained, closes the file
FileClose(i) ==
    /\ sess[i].fileStream.state = "ending"
    /\ sess[i].fileStream.pending = <<>>
    /\ sess' = [sess EXCEPT ![i].fileStream.state = "closed"]
    /\ hist' = [hist EXCEPT ![i] = Step(@, "fclose")]
    /\ UNCHANGED budget

Next ==
    \E i \in Sessions :
        \/ Synthesize(i)
        \/ Open(i)
        \/ MessageBinary(i)
        \/ MessageText(i)
        \/ WsError(i)
        \/ WsClose(i)
        \/ FileFlush(i)
        \/ FileClose(i)

Spec == Init /\ [][Next]_vars

\* the calls with every volume option, up to the run-task command
NextVolume ==
    \E i \in Sessions :
        \/ SynthesizeAnyVolume(i)
        \/ Open(i)

SpecVolume == Init /\ [][NextVolume]_vars

\* two concurrent calls of synthesize on the engine
Init2 ==
    /\ sess = [i \in Sessions2 |-> Idle]
    /\ hist = [i \in Sessions2 |-> NoHist]
    /\ budget = MaxEvents2

Next2 ==
    \E i \in Sessions2 :
        \/ Synthesize(i)
        \/ Open(i)
        \/ MessageBinary(i)
        \/ MessageText(i)
        \/ WsError(i)
        \/ WsClose(i)
        \/ FileFlush(i)
        \/ FileClose(i)

Spec2 == Init2 /\ [][Next2]_vars

(***************************************************************************)
(* The finalization outcomes a session has produced.                       *)
(***************************************************************************)
Outcomes(s) ==
    {o \in {"resolve-buffer", "resolve-file", "stream-end", "stream-error",
            "promise-reject"} :
        \/ o = "resolve-buffer" /\ s.promise.state = "resolved"
                                /\ s.promise.kind = "buffer" /\ Sink(s) # "file"
        \/ o = "resolve-file" /\ s.promise.state = "resolved"
                              /\ s.promise.kind = "buffer" /\ Sink(s) = "file"
        \/ o = "stream-end" /\ s.outputStream.ended
        \/ o = "stream-error" /\ s.outputStream.errors # <<>>
        \/ o = "promise-reject" /\ s.promise.state = "rejected"}

\* the binary frames that arrived before the first task-finished event
BeforeFinish(h) == SubSeq(h.received, 1, h.finishedAt)

(***************************************************************************)
(* C1.  At most one finalization outcome occurs per session, whatever the  *)
(* order of the transport events.  The code has no settled-once guard: a   *)
(* failure after task-finished (or the reverse) finalizes the sink twice.  *)
(***************************************************************************)
C1_AtMostOneOutcome ==
    \A i \in Sessions : Cardinality(Outcomes(sess[i])) <= 1

(***************************************************************************)
(* C2.  Every session reaches a finalization outcome.  As stated it fails: *)
(* the session has no timeout and no 'close' handler, so a connection that *)
(* the peer closes without a terminal event leaves the session with no     *)
(* outcome, and nothing can produce one any more.                          *)
(***************************************************************************)
C2_Original ==
    \A i \in Sessions :
        sess[i].ws.readyState = "CLOSED" => Outcomes(sess[i]) # {}

\* C2, amended: a session has a finalization outcome exactly when a
\* terminal event (task-finished, task-failed or a transport error) has
\* been delivered to it, in each of the three output modes.
C2_OutcomeIffTerminal ==
    \A i \in Sessions :
        (hist[i].firstTerminal # "none") <=> (Outcomes(sess[i]) # {})

C2_Witness ==
    \E i \in Sessions :
        /\ Sink(sess[i]) = "stream"
        /\ hist[i].opened
        /\ hist[i].firstTerminal = "error"
        /\ Outcomes(sess[i]) = {"stream-error"}

(***************************************************************************)
(* C3.  Buffer mode: when task-finished is received the promise resolves   *)
(* with the concatenation, in arrival order, of the binary frames received *)
(* before it.  As stated it fails when a task-failed event came first: the *)
(* promise is rejected already and stays so.                               *)
(***************************************************************************)
C3_Original ==
    \A i \in Sessions :
        (sess[i].called /\ Sink(sess[i]) = "buffer"
            /\ hist[i].finishedAt # -1) =>
                /\ sess[i].promise.state = "resolved"
                /\ sess[i].promise.bytes = Concat(BeforeFinish(hist[i]))

\* C3, amended: in buffer mode the promise resolves on a task-finished
\* event received before any task-failed event or transport error, and
\* whenever it is resolved its value is the concatenation, in arrival
\* order, of the binary frames received before the first task-finished.
C3_BufferResult ==
    \A i \in Sessions :
        (sess[i].called /\ Sink(sess[i]) = "buffer") =>
            /\ hist[i].firstTerminal = "task-finished" =>
                   sess[i].promise.state = "resolved"
            /\ sess[i].promise.state = "resolved" =>
                   /\ hist[i].finishedAt # -1
                   /\ sess[i].promise.kind = "buffer"
                   /\ sess[i].promise.bytes = Concat(BeforeFinish(hist[i]))

C3_Witness ==
    \E i \in Sessions :
        /\ Sink(sess[i]) = "buffer"
        /\ sess[i].promise.state = "resolved"
        /\ hist[i].received = << <<65, 65>>, <<66>> >>
        /\ sess[i].promise.bytes = <<65, 65, 66>>

(***************************************************************************)
(* C4.  Stream mode: the promise resolves to the live stream on the        *)
(* transport's open event.  As stated it fails: the promise is resolved    *)
(* inside the call, before the connection opens.                           *)
(***************************************************************************)
C4_Original ==
    \A i \in Sessions :
        (Sink(sess[i]) = "stream" /\ sess[i].promise.state = "resolved")
            => hist[i].opened

\* C4, amended: in stream mode (and in no other mode) the promise is
\* resolved to the live stream from the return of the call on, so before
\* the open event, any binary chunk and any task-finished event.
C4_ResolvedAtCall ==
    \A i \in Sessions :
        sess[i].called =>
            ((Sink(sess[i]) = "stream")
                <=> (sess[i].promise.state = "resolved"
                        /\ sess[i].promise.kind = "stream"))

C4_Witness ==
    \E i \in Sessions :
        /\ sess[i].called
        /\ Sink(sess[i]) = "stream"
        /\ ~hist[i].opened
        /\ hist[i].received = <<>>
        /\ hist[i].firstTerminal = "none"
        /\ sess[i].promise.state = "resolved"
        /\ sess[i].promise.kind = "stream"

(***************************************************************************)
(* C5.  Stream mode: until the first task-finished event the stream holds  *)
(* every binary frame received, in arrival order; that event ends the      *)
(* stream, whose content is then the frames received before it.            *)
(***************************************************************************)
C5_StreamContent ==
    \A i \in Sessions :
        (sess[i].called /\ Sink(sess[i]) = "stream") =>
            /\ hist[i].finishedAt = -1 =>
                   /\ ~sess[i].outputStream.ended
                   /\ sess[i].outputStream.data = hist[i].received
            /\ hist[i].finishedAt # -1 =>
                   /\ sess[i].outputStream.ended
                   /\ sess[i].outputStream.data = BeforeFinish(hist[i])

C5_Witness ==
    \E i \in Sessions :
        /\ Sink(sess[i]) = "stream"
        /\ sess[i].outputStream.ended
        /\ sess[i].outputStream.data = << <<65, 65>>, <<66>> >>
        /\ Len(hist[i].received) = 3

(***************************************************************************)
(* C6.  File mode: the file stream exists before run-task is sent, every   *)
(* binary frame is appended in arrival order, and a task-finished event    *)
(* that precedes any failure closes the file and resolves the promise to   *)
(* an empty buffer, the file holding (written or still queued) all the     *)
(* frames received before the event.  A failure after task-finished        *)
(* destroys the ending file stream and drops its queue.                    *)
(***************************************************************************)
C6_FileScenario ==
    \A i \in Sessions :
        (sess[i].called /\ sess[i].outputType = "file"
            /\ Truthy(sess[i].output)) =>
            /\ sess[i].fileStream.exists
            /\ sess[i].fileStream.state = "open" =>
                   sess[i].fileStream.disk \o Concat(sess[i].fileStream.pending)
                       = Concat(hist[i].received)
            /\ hist[i].firstTerminal = "task-finished" =>
                   /\ sess[i].promise.state = "resolved"
                   /\ sess[i].promise.kind = "buffer"
                   /\ sess[i].promise.bytes = <<>>
                   /\ sess[i].fileStream.state \in {"ending", "closed"}
                   /\ sess[i].fileStream.disk
                          \o Concat(sess[i].fileStream.pending)
                       = Concat(BeforeFinish(hist[i]))

(***************************************************************************)
(* C7.  File mode: the promise resolves to an empty buffer, and only once  *)
(* the file write has completed: every chunk written, the file closed.     *)
(* The code resolves right after fileStream.end(), while chunks are still  *)
(* queued and the file is not yet closed.                                  *)
(***************************************************************************)
C7_ResolvesAfterFileWrite ==
    \A i \in Sessions :
        (sess[i].called /\ sess[i].outputType = "file"
            /\ Truthy(sess[i].output)
            /\ sess[i].promise.state = "resolved") =>
                /\ sess[i].promise.kind = "buffer"
                /\ sess[i].promise.bytes = <<>>
                /\ sess[i].fileStream.state = "closed"
                /\ sess[i].fileStream.pending = <<>>

(***************************************************************************)
(* C8.  Buffer mode, task-failed as the first terminal event: the promise  *)
(* rejects with the event's error_message when one is supplied, with the   *)
(* fallback otherwise, and ws.close is called.  As stated it fails for an  *)
(* error_message that is supplied and empty: the fallback is used.         *)
(***************************************************************************)
C8_Original ==
    \A i \in Sessions :
        (Sink(sess[i]) = "buffer" /\ hist[i].firstTerminal = "task-failed") =>
            /\ sess[i].promise.state = "rejected"
            /\ sess[i].promise.message =
                   IF hist[i].failMessage # Undefined
                   THEN hist[i].failMessage
                   ELSE FallbackMessage
            /\ sess[i].ws.closeCalls >= 1

\* C8, amended: the promise rejects with the event's error_message when a
\* non-empty one is supplied, and with the fallback when it is absent or
\* empty; ws.close is called.
C8_RejectMessage ==
    \A i \in Sessions :
        (Sink(sess[i]) = "buffer" /\ hist[i].firstTerminal = "task-failed") =>
            /\ sess[i].promise.state = "rejected"
            /\ sess[i].promise.message =
                   IF hist[i].failMessage \notin {Undefined, ""}
                   THEN hist[i].failMessage
                   ELSE FallbackMessage
            /\ sess[i].ws.closeCalls >= 1

C8_Witness ==
    \E i \in Sessions :
        /\ Sink(sess[i]) = "buffer"
        /\ hist[i].firstTerminal = "task-failed"
        /\ hist[i].failMessage = "quota exceeded"
        /\ sess[i].promise.state = "rejected"
        /\ sess[i].promise.message = "quota exceeded"
        /\ sess[i].ws.closeCalls = 1

C10_MalformedIsNoOp ==
    [][\A i \in Sessions :
          (hist'[i].last.kind = "text"
              /\ hist'[i].last.frame \in MalformedFrames)
          => sess'[i] = sess[i]]_vars

C10_Witness ==
    \E i \in Sessions :
        /\ hist[i].last.kind = "text"
        /\ hist[i].last.frame = NotJson
        /\ hist[i].firstTerminal = "none"
        /\ Len(hist[i].received) = 1
        /\ sess[i].audioChunks = hist[i].received
        /\ sess[i].promise.state = "pending"
        /\ sess[i].ws.readyState = "OPEN"

(***************************************************************************)
(* C11.  A binary frame received before any task-started event is appended *)
(* to the active sink and comes first in the output.  As stated it fails   *)
(* for a frame that arrives after a terminal event and before any          *)
(* task-started: the sink is finalized and the frame is not in the output. *)
(***************************************************************************)
\* the binary frames received before the first task-started event
BeforeStart(h) ==
    IF h.startedAt = -1 THEN h.received ELSE SubSeq(h.received, 1, h.startedAt)

\* the binary frames received before the first task-started event and
\* before the first terminal event
Early(h) ==
    IF h.terminalAt # -1 /\ h.terminalAt < Len(BeforeStart(h))
    THEN SubSeq(h.received, 1, h.terminalAt)
    ELSE BeforeStart(h)

IsPrefix(p, q) == Len(p) <= Len(q) /\ SubSeq(q, 1, Len(p)) = p

\* the frames `early` are at the head of what the session's sink holds and
\* of the result the promise delivered
HeadsOutput(s, early) ==
    /\ Sink(s) = "buffer" =>
           /\ IsPrefix(early, s.audioChunks)
           /\ s.promise.state = "resolved" =>
                  IsPrefix(Concat(early), s.promise.bytes)
    /\ Sink(s) = "stream" => IsPrefix(early, s.outputStream.data)
    /\ (Sink(s) = "file" /\ s.fileStream.state # "destroyed") =>
           IsPrefix(Concat(early),
                    s.fileStream.disk \o Concat(s.fileStream.pending))

C11_Original ==
    \A i \in DOMAIN sess :
        sess[i].called => HeadsOutput(sess[i], BeforeStart(hist[i]))

\* C11, amended: a binary frame received after the open event, before any
\* task-started event and before any terminal event is appended to the
\* active sink and stays ahead of the chunks received after task-started,
\* in the sink and in the result (a destroyed file keeps only what was
\* already written).
C11_NoPhaseGate ==
    \A i \in DOMAIN sess :
        sess[i].called => HeadsOutput(sess[i], Early(hist[i]))

C11_Witness ==
    \E i \in DOMAIN sess :
        /\ Sink(sess[i]) = "buffer"
        /\ hist[i].startedAt = 1
        /\ hist[i].finishedAt = 2
        /\ hist[i].firstTerminal = "task-finished"
        /\ sess[i].promise.state = "resolved"
        /\ sess[i].promise.bytes = Concat(hist[i].received)
        /\ Len(hist[i].received) = 2

(***************************************************************************)
(* C12.  For a volume option in [0, 1] the volume sent in run-task is the  *)
(* integer nearest to volume * 100 (a half rounded up), within 0..100,     *)
(* with 50 in place of 0; so it is an integer of 1..100.                   *)
(***************************************************************************)
\* the integer r with r - 1/2 <= volume * 100 < r + 1/2
Nearest(volume) ==
    CHOOSE r \in -100 .. 200 :
        512 * r - 256 <= 200 * volume /\ 200 * volume < 512 * r + 256

ExpectedVolume(volume) ==
    LET clamped == Max(0, Min(100, Nearest(volume)))
    IN  IF clamped = 0 THEN 50 ELSE clamped

C12_VolumeMapping ==
    \A i \in DOMAIN sess :
        (hist[i].opened /\ sess[i].volume.given
            /\ sess[i].volume.value \in 0 .. 256) =>
            /\ Len(sess[i].ws.sent) = 1
            /\ sess[i].ws.sent[1].action = "run-task"
            /\ sess[i].ws.sent[1].volume
                   = ExpectedVolume(sess[i].volume.value)
            /\ sess[i].ws.sent[1].volume \in 1 .. 100

C12_Witness ==
    \E i \in DOMAIN sess :
        /\ hist[i].opened
        /\ sess[i].volume = Given(1)
        /\ sess[i].ws.sent[1].volume = 50

(***************************************************************************)
(* C13.  The commands follow the protocol order: run-task is the first     *)
(* command and is sent on the open event; each task-started event sends    *)
(* continue-task with the request text and then finish-task with no text,  *)
(* nothing in between; neither is sent before run-task.                    *)
(***************************************************************************)
C13_CommandOrder ==
    \A i \in DOMAIN sess :
        LET s == sess[i]
            sent == s.ws.sent
        IN  /\ (sent = <<>>) <=> ~hist[i].opened
            /\ hist[i].opened =>
                   /\ sent[1].action = "run-task"
                   /\ sent[1].task_id = s.taskId
                   /\ Len(sent) + s.ws.unsent = 1 + 2 * hist[i].starts
                   /\ Len(sent) % 2 = 1
                   /\ s.ws.closeCalls = 0 => s.ws.unsent = 0
            /\ \A k \in 2 .. Len(sent) :
                   IF k % 2 = 0
                   THEN sent[k] = continueTaskCmd(s) /\ sent[k].text = s.text
                   ELSE sent[k] = finishTaskCmd(s) /\ sent[k].text = Undefined

C13_Witness ==
    \E i \in DOMAIN sess :
        /\ hist[i].starts = 1
        /\ Len(sess[i].ws.sent) = 3
        /\ sess[i].ws.sent[1].action = "run-task"
        /\ sess[i].ws.sent[2].action = "continue-task"
        /\ sess[i].ws.sent[2].text = "ni hao"
        /\ sess[i].ws.sent[3].action = "finish-task"

(***************************************************************************)
(* C14.  The phase only moves forward and a terminal phase is absorbing:   *)
(* continue-task and finish-task are each sent at most once, and no send   *)
(* is made once the session has closed the transport.  The task-started    *)
(* branch has no guard: every task-started event sends both commands.      *)
(***************************************************************************)
C14_StartedOnce ==
    \A i \in DOMAIN sess :
        /\ Cardinality({k \in 1 .. Len(sess[i].ws.sent) :
                           sess[i].ws.sent[k].action = "continue-task"}) <= 1
        /\ Cardinality({k \in 1 .. Len(sess[i].ws.sent) :
                           sess[i].ws.sent[k].action = "finish-task"}) <= 1
        /\ sess[i].ws.unsent = 0

(***************************************************************************)
(* C15.  Only a task-started event whose header.task_id is the session's   *)
(* task id makes the session send continue-task and finish-task.  The      *)
(* branch never reads header.task_id.                                      *)
(***************************************************************************)
C15_MatchingTaskId ==
    \A i \in DOMAIN sess :
        (/\ hist[i].starts = 1
         /\ hist[i].last.kind = "text"
         /\ IsEvent(hist[i].last.frame, "task-started")
         /\ hist[i].last.frame.task_id # sess[i].taskId)
        => (Len(sess[i].ws.sent) <= 1 /\ sess[i].ws.unsent = 0)

(***************************************************************************)
(* C16.  One sink per session, fixed by outputType, output and stream at   *)
(* the call: file when outputType is 'file' with an output path, else      *)
(* stream when stream is true, else buffer.  The binary frames go to that  *)
(* sink and the finalization acts on it; the other two sinks stay as they  *)
(* were created, whatever events arrive.                                   *)
(***************************************************************************)
\* the sink the request selects
RequestedSink(s) ==
    IF s.outputType = "file" /\ Truthy(s.output) THEN "file"
    ELSE IF s.stream THEN "stream"
    ELSE "buffer"

C16_OneSink ==
    \A i \in DOMAIN sess :
        LET s == sess[i]
            h == hist[i]
        IN  s.called =>
            /\ Sink(s) = RequestedSink(s)
            /\ RequestedSink(s) = "file" =>
                   /\ s.audioChunks = <<>>
                   /\ s.outputStream = NewPassThrough
                   /\ s.promise.kind # "stream"
                   /\ h.firstTerminal = "none" =>
                          s.fileStream.disk \o Concat(s.fileStream.pending)
                              = Concat(h.received)
                   /\ h.firstTerminal # "none" => s.fileStream.state # "open"
            /\ RequestedSink(s) = "stream" =>
                   /\ s.audioChunks = <<>>
                   /\ s.fileStream = NoFileStream
                   /\ s.promise = resolve(PendingPromise, StreamValue)
                   /\ h.firstTerminal = "none" =>
                          s.outputStream.data = h.received
                   /\ h.firstTerminal # "none" =>
                          (s.outputStream.ended \/ s.outputStream.errors # <<>>)
            /\ RequestedSink(s) = "buffer" =>
                   /\ s.outputStream = NewPassThrough
                   /\ s.fileStream = NoFileStream
                   /\ s.promise.kind # "stream"
                   /\ h.firstTerminal = "none" => s.audioChunks = h.received
                   /\ h.firstTerminal # "none" => s.promise.state # "pending"

C16_Witness ==
    \E i \in DOMAIN sess :
        /\ sess[i].stream
        /\ RequestedSink(sess[i]) = "file"
        /\ Len(hist[i].received) = 2
        /\ hist[i].firstTerminal = "task-failed"
        /\ sess[i].fileStream.state = "destroyed"
        /\ sess[i].outputStream = NewPassThrough
        /\ sess[i].audioChunks = <<>>

(***************************************************************************)
(* C17.  A task-failed event and a transport error are both delivered      *)
(* through the failure path of the active sink: file destroyed and promise *)
(* rejected, stream error event with the promise left resolved, buffer     *)
(* promise rejected.  As stated it fails for a failure that follows        *)
(* task-finished: the promise has resolved and is not rejected.            *)
(***************************************************************************)
\* the last event delivered is a task-failed event or a transport error
LastIsFailure(h) ==
    \/ h.last.kind = "error"
    \/ h.last.kind = "text" /\ IsEvent(h.last.frame, "task-failed")

C17_Original ==
    \A i \in DOMAIN sess :
        LastIsFailure(hist[i]) =>
            /\ Sink(sess[i]) = "file" =>
                   /\ sess[i].fileStream.state = "destroyed"
                   /\ sess[i].promise.state = "rejected"
            /\ Sink(sess[i]) = "stream" =>
                   /\ sess[i].outputStream.errors # <<>>
                   /\ sess[i].promise.state = "resolved"
            /\ Sink(sess[i]) = "buffer" =>
                   sess[i].promise.state = "rejected"

\* the message of the error a first terminal failure carries
FailureMessage(h) ==
    IF h.firstTerminal = "task-failed" /\ ~Truthy(h.failMessage)
    THEN FallbackMessage
    ELSE h.failMessage

\* C17, amended: a task-failed event or a transport error that is the
\* first terminal event of the session is delivered through the active
\* sink's failure path: in file mode the file is destroyed and the promise
\* rejected with the error, in stream mode the stream receives the error
\* event and the promise stays resolved to the stream, in buffer mode the
\* promise is rejected with the error.
C17_FailurePath ==
    \A i \in DOMAIN sess :
        hist[i].firstTerminal \in {"task-failed", "error"} =>
            /\ Sink(sess[i]) = "file" =>
                   /\ sess[i].fileStream.state = "destroyed"
                   /\ sess[i].promise.state = "rejected"
                   /\ sess[i].promise.message = FailureMessage(hist[i])
            /\ Sink(sess[i]) = "stream" =>
                   /\ sess[i].outputStream.errors # <<>>
                   /\ sess[i].outputStream.errors[1] = FailureMessage(hist[i])
                   /\ sess[i].promise = resolve(PendingPromise, StreamValue)
            /\ Sink(sess[i]) = "buffer" =>
                   /\ sess[i].promise.state = "rejected"
                   /\ sess[i].promise.message = FailureMessage(hist[i])

C17_Witness ==
    \E i \in DOMAIN sess :
        /\ Sink(sess[i]) = "file"
        /\ hist[i].firstTerminal = "task-failed"
        /\ hist[i].failMessage = "quota exceeded"
        /\ Len(hist[i].received) = 1
        /\ sess[i].fileStream.state = "destroyed"
        /\ sess[i].promise.state = "rejected"
        /\ sess[i].promise.message = "quota exceeded"

(***************************************************************************)
(* C18.  Concurrent sessions are independent: each has its own task id,    *)
(* connection, sink and deferred result, and an event on one session       *)
(* never changes the state of another.                                     *)
(***************************************************************************)
\* the commands a session has sent carry its own task id
OwnCommands(s) ==
    \A k \in 1 .. Len(s.ws.sent) : s.ws.sent[k].task_id = s.taskId

\* what the session's own connection delivered is what its sink holds
OwnAudio(s, h) ==
    h.firstTerminal = "none" =>
        /\ Sink(s) = "buffer" => s.audioChunks = h.received
        /\ Sink(s) = "stream" => s.outputStream.data = h.received
        /\ Sink(s) = "file" =>
               s.fileStream.disk \o Concat(s.fileStream.pending)
                   = Concat(h.received)

C19_NoWriteAfterFinalize ==
    \A i \in DOMAIN sess :
        /\ sess[i].fileStream.lateWrites = 0
        /\ sess[i].outputStream.lateWrites = 0
        /\ hist[i].firstTerminal # "none" /\ Sink(sess[i]) = "stream" =>
               Len(sess[i].outputStream.data) <= hist[i].terminalAt

(***************************************************************************)
(* C20.  A well-formed control frame whose event is result-generated, or   *)
(* any event other than task-started, task-finished and task-failed,       *)
(* leaves the session unchanged: no command sent, transport not closed,    *)
(* sinks and promise as they were.                                         *)
(***************************************************************************)
ActingEvents == {"task-started", "task-finished", "task-failed"}

\* a parsed frame with a header whose event no branch acts on
IsInert(frame) ==
    frame.json /\ frame.hasHeader /\ frame.event \notin ActingEvents

C20_InertEvents ==
    [][\A i \in DOMAIN sess :
          (hist'[i].last.kind = "text" /\ IsInert(hist'[i].last.frame))
          => sess'[i] = sess[i]]_vars

C20_Witness ==
    \E i \in DOMAIN sess :
        /\ hist[i].last.kind = "text"
        /\ hist[i].last.frame.json /\ hist[i].last.frame.hasHeader
        /\ hist[i].last.frame.event = "heartbeat"
        /\ hist[i].starts = 1
        /\ hist[i].firstTerminal = "none"
        /\ Len(hist[i].received) = 1
        /\ Len(sess[i].ws.sent) = 3
        /\ sess[i].ws.readyState = "OPEN"
        /\ sess[i].ws.closeCalls = 0
        /\ sess[i].promise.state = "pending"
        /\ sess[i].audioChunks = hist[i].received

====
